---------------------------- MODULE Spec2Model ----------------------------
(***************************************************************************)
(* KnobGallery++ backend: the EnhancedDownloader                           *)
(* (backend/services/enhanced_download.py), the ScrapeStatus model it      *)
(* reports through (backend/core/models.py) and the single-file download   *)
(* of the data service (backend/services/data_service.py).                 *)
(*                                                                         *)
(* Client threads call the downloader's public methods.  One thread at a   *)
(* time calls download_assets_in_batches; the others call                  *)
(* download_knob_complete (the task the pool would run, one call per asset *)
(* between two resets of the id sets) and download_knob_file_sync.  A      *)
(* file is abstracted to what os.path.exists and a size check can see of   *)
(* it; a path field is abstracted to "set or None", the path itself being  *)
(* a function of the knob's id.                                            *)
(***************************************************************************)
EXTENDS Integers, Sequences, FiniteSets, TLC

\* ------------------------------------------------------------- bounds
NKnobs == 2
NThreads == 2
MaxRetry == 2
MaxBatch == 2
\* Calls of the public methods in one behaviour.
MaxCalls == 2

Knobs == 1..NKnobs
Threads == 1..NThreads

\* What os.path.exists and a size check see at a knob file's path: nothing,
\* a 0-byte file, a file with bytes in it (the whole body or a truncated one).
\* Of a thumbnail only its existence is kept: "absent" or "bytes".
FileStates == {"absent", "empty", "bytes"}
ThumbStates == {"absent", "bytes"}

\* One attempt: httpx.get + raise_for_status + open(path, 'wb') + write.
\*   ok                  2xx, non-empty body, written in full
\*   ok_empty            2xx with an empty body: a 0-byte file, no exception
\*   fetch_fail          transport error, timeout or non-2xx status
\*   open_fail           open() raises: nothing created or truncated
\*   write_fail_empty    open() truncate-creates, write raises before a byte
\*   write_fail_partial  open() truncate-creates, write raises midway
Outcomes == {"ok", "ok_empty", "fetch_fail", "open_fail",
             "write_fail_empty", "write_fail_partial"}

VARIABLES
    knob,            \* [Knobs -> KnobAsset]: the asset records
    knobFile,        \* [Knobs -> FileStates]: knobs_dir / "{id}_{file}"
    thumbFile,       \* [Knobs -> ThumbStates]: thumbnails_dir / "{id}.png"
    retry_attempts,  \* EnhancedDownloader.retry_attempts
    lock,            \* EnhancedDownloader._lock: 0 free, else the holder
    completed_ids,   \* EnhancedDownloader._completed_ids
    failed_ids,      \* EnhancedDownloader._failed_ids
    status,          \* EnhancedDownloader.status
    run,             \* the thread in download_assets_in_batches
    task,            \* [Threads -> frame of download_knob_complete / _file_sync]
    submitted,       \* knobs given to download_knob_complete since the last reset
    calls,           \* calls made so far
    settings,        \* core.config.settings: the numeric download settings
    env_file,        \* the .env file: for each key its line's value, or none
    scrape_status,   \* data_service.scrape_status (module global)
    scrape,          \* the scrape_all_knobs coroutines of POST /scrape
    posts,           \* POST /scrape requests handled so far
    multi,           \* the frame of download_multiple_knobs
    listing          \* self.knobs in order, and the last get_all_knobs call

\* The state of the data service and of the settings API, which no method of
\* EnhancedDownloader reads or writes.
service == <<settings, env_file, scrape_status, scrape, posts, multi, listing>>

vars == <<knob, knobFile, thumbFile, retry_attempts, lock, completed_ids,
          failed_ids, status, run, task, submitted, calls, service>>

\* ------------------------------------------------------- data model
\* KnobAsset: the fields the downloader reads and writes.  A URL is TRUE when
\* it is a non-empty string, a path field TRUE when it is set.
KnobAsset == [thumbnail_url : BOOLEAN, download_url : BOOLEAN,
              local_path : BOOLEAN, local_thumbnail_path : BOOLEAN,
              downloaded : BOOLEAN]

NewKnobAsset(turl, durl) ==
    [thumbnail_url |-> turl, download_url |-> durl, local_path |-> FALSE,
     local_thumbnail_path |-> FALSE, downloaded |-> FALSE]

\* ScrapeStatus declares exactly these fields; it declares no "message".
StatusFields == {"in_progress", "total_items", "completed_items", "success",
                 "error_message"}

\* pydantic's BaseModel.__setattr__: assigning a name that is not a declared
\* field raises ValueError ('"ScrapeStatus" object has no field "..."'); the
\* constructor silently drops an undeclared keyword.
HasField(name) == name \in StatusFields

ScrapeStatus(inp, total, done, succ) ==
    [in_progress |-> inp, total_items |-> total, completed_items |-> done,
     success |-> succ]

\* os.path.exists
Exists(f) == f # "absent"

\* if not knob.thumbnail_url / if not knob.download_url: None or "".
UrlNeverMissing(url) == FALSE
UrlMissing(url) == ~url

\* ------------------------------------------------------------ frames
\* pc, knob, attempt, tres (thumbnail_result), kres (knob_result) and ret are
\* the frame's own; pre, had, req and fail describe the fetch function that
\* is running or has just returned: what was at its destination and whether
\* the asset's path field was set when it was entered, the requests it has
\* sent and the attempts of it that failed.
IdleTask ==
    [pc |-> "idle", knob |-> 0, attempt |-> 0,
     tres |-> "none", kres |-> "none", ret |-> "none",
     pre |-> "absent", had |-> FALSE, req |-> 0, fail |-> 0, dk |-> FALSE]

IdleRun ==
    [pc |-> "idle", knobs |-> <<>>, batch_size |-> 1, max_workers |-> 1,
     batches |-> <<>>, batch_index |-> 0, err |-> "none"]

Busy(k) == \E t \in Threads : task[t].knob = k

\* ----------------------------------------------------------- inputs
RECURSIVE SeqsOver(_)
SeqsOver(S) ==
    IF S = {} THEN {<<>>}
    ELSE {<<>>} \cup UNION {{<<x>> \o s : s \in SeqsOver(S \ {x})} : x \in S}

\* Lists of assets with pairwise-distinct ids.
KnobLists == SeqsOver(Knobs)

\* An optional integer (Optional[int], a line of .env): <<>> or <<v>>.
None == <<>>
Some(v) == <<v>>

\* The settings update_settings can change and the downloader is configured
\* from.
Keys == {"MAX_DOWNLOAD_WORKERS", "MAX_CONCURRENT_DOWNLOADS",
         "DOWNLOAD_BATCH_SIZE", "DOWNLOAD_RETRY_ATTEMPTS"}

MaxScrapes == 2
Scrapes == 1..MaxScrapes

NoScrape == [pc |-> "none", fetched |-> "none", items |-> 0, html |-> FALSE,
             result |-> "none"]

\* download_multiple_knobs: the request's ids, the records they matched, the
\* state of each submitted future, the future each worker is running, the
\* counter of lines 508 and the returned pair.
IdleMulti ==
    [pc |-> "idle", ids |-> <<>>, valid |-> <<>>, fut |-> <<>>,
     by |-> [t \in Threads |-> 0], completed |-> 0, failed |-> 0,
     ret |-> "none", msg |-> "none"]

\* get_all_knobs: the ids of self.knobs in their order, the arguments of the
\* last call and the KnobGalleryResponse it returned.
NoListing ==
    [knobs |-> <<>>, page |-> 0, limit |-> 0, resp_knobs |-> <<>>, total |-> 0,
     total_pages |-> 0]

\* No .env file, scrape_status = ScrapeStatus(), no request made yet.
ServiceAtRest ==
    /\ env_file = [k \in Keys |-> None]
    /\ scrape_status = ScrapeStatus(FALSE, 0, 0, FALSE)
    /\ scrape = [i \in Scrapes |-> NoScrape]
    /\ posts = 0
    /\ multi = IdleMulti
    /\ listing = NoListing

Init ==
    /\ settings = [k \in Keys |-> 1]
    /\ ServiceAtRest
    /\ knob \in [Knobs -> {NewKnobAsset(t, d) : t \in BOOLEAN, d \in BOOLEAN}]
    /\ knobFile = [k \in Knobs |-> "absent"]
    /\ thumbFile = [k \in Knobs |-> "absent"]
    /\ retry_attempts \in 0..MaxRetry
    /\ lock = 0
    /\ completed_ids = {}
    /\ failed_ids = {}
    /\ status = ScrapeStatus(FALSE, 0, 0, FALSE)
    /\ run = IdleRun
    /\ task = [t \in Threads |-> IdleTask]
    /\ submitted = {}
    /\ calls = 0


\* ------------------------------------------------- one network attempt
\* The file at the destination after an attempt with outcome o.
FileAfter(old, o) ==
    CASE o = "ok" -> "bytes"
      [] o = "ok_empty" -> "empty"
      [] o = "write_fail_empty" -> "empty"
      [] o = "write_fail_partial" -> "bytes"
      [] OTHER -> old

\* The same for a thumbnail, of which only the existence is kept.
ThumbAfter(old, o) ==
    IF FileAfter(old, o) = "absent" THEN "absent" ELSE "bytes"

\* The attempt reaches its return statement (no exception in the try block).
AttemptOk(o) == o \in {"ok", "ok_empty"}

\* except Exception as e: every failure of an attempt (httpx's errors, the
\* HTTPStatusError of raise_for_status, the OSError of open and write) is an
\* Exception, so the handler of lines 68 and 106 takes it.
CaughtHttpOnly(o) == o = "fetch_fail"
Caught(o) == o \in Outcomes \ {"ok", "ok_empty"}

\* for attempt in range(1, self.retry_attempts + 1)
RetryBudgetOffByOne == retry_attempts + 1
RetryBudget == retry_attempts

InLoop(a) == a <= RetryBudget
\* if attempt < self.retry_attempts: warn and go on; else: return ""
GoesOn(a) == a < RetryBudget

\* ------------------------------------ download_knob_complete, called
\* A client (the pool's worker in download_assets_in_batches) calls
\* download_knob_complete(knob): once per asset between two resets.
CallComplete(t, k) ==
    /\ task[t].pc = "idle"
    /\ run.pc = "idle"
    /\ k \notin submitted
    /\ ~Busy(k)
    /\ task' = [task EXCEPT ![t] = [IdleTask EXCEPT !.pc = "c120", !.knob = k]]
    /\ submitted' = submitted \cup {k}
    /\ calls < MaxCalls
    /\ calls' = calls + 1
    /\ UNCHANGED <<service, knob, knobFile, thumbFile, retry_attempts, lock,
                   completed_ids, failed_ids, status, run>>

\* if not knob.local_thumbnail_path or not os.path.exists(knob.local_thumbnail_path)
ThumbNeeded(k) == ~knob[k].local_thumbnail_path \/ ~Exists(thumbFile[k])

C120(t) ==
    /\ task[t].pc = "c120"
    /\ task' = [task EXCEPT ![t].pc =
                   IF ThumbNeeded(task[t].knob) THEN "t44" ELSE "k79"]
    /\ UNCHANGED <<service, knob, knobFile, thumbFile, retry_attempts, lock,
                   completed_ids, failed_ids, status, run, submitted, calls>>

\* The knob parameter of download_thumbnail_with_retry and
\* download_knob_with_retry: the record download_knob_complete was given.
RecordShared(t) == 1
Record(t) == task[t].knob

\* ------------------------------------- download_thumbnail_with_retry
\* Lines 44-53: the path field is written first, then the existence check,
\* then the URL check.
T44(t) ==
    LET k == Record(t) IN
    /\ task[t].pc = "t44"
    /\ knob' = [knob EXCEPT ![k].local_thumbnail_path = TRUE]
    /\ task' = [task EXCEPT ![t] =
          IF Exists(thumbFile[k])
          THEN [@ EXCEPT !.pre = thumbFile[k], !.had = knob[k].local_thumbnail_path,
                         !.tres = "path", !.pc = "k79"]
          ELSE IF UrlMissing(knob[k].thumbnail_url)
          THEN [@ EXCEPT !.pre = thumbFile[k], !.had = knob[k].local_thumbnail_path,
                         !.tres = "", !.pc = "k79"]
          ELSE [@ EXCEPT !.pre = thumbFile[k], !.had = knob[k].local_thumbnail_path,
                         !.attempt = 1, !.pc = "t56"]]
    /\ UNCHANGED <<service, knobFile, thumbFile, retry_attempts, lock, completed_ids,
                   failed_ids, status, run, submitted, calls>>

\* Lines 56-75: one pass of the loop (or line 75 when the range is empty).
T56(t) ==
    LET k == Record(t)
        a == task[t].attempt IN
    /\ task[t].pc = "t56"
    /\ IF ~InLoop(a)
       THEN /\ task' = [task EXCEPT ![t].tres = "", ![t].pc = "k79"]
            /\ UNCHANGED thumbFile
       ELSE \E o \in Outcomes :
            /\ thumbFile' = [thumbFile EXCEPT ![k] = ThumbAfter(@, o)]
            /\ task' = [task EXCEPT ![t] =
                  IF AttemptOk(o)
                  THEN [@ EXCEPT !.req = @ + 1, !.tres = "path", !.pc = "k79"]
                  ELSE IF ~Caught(o)
                  THEN [@ EXCEPT !.req = @ + 1, !.fail = @ + 1, !.pc = "raised"]
                  ELSE IF GoesOn(a)
                  THEN [@ EXCEPT !.req = @ + 1, !.fail = @ + 1,
                                 !.attempt = a + 1]
                  ELSE [@ EXCEPT !.req = @ + 1, !.fail = @ + 1,
                                 !.tres = "", !.pc = "k79"]]
    /\ UNCHANGED <<service, knob, knobFile, retry_attempts, lock, completed_ids,
                   failed_ids, status, run, submitted, calls>>

\* ------------------------------------------ download_knob_with_retry
\* Lines 79-90.
K79(t) ==
    LET k == Record(t) IN
    /\ task[t].pc = "k79"
    /\ knob' = [knob EXCEPT ![k].local_path = TRUE,
                            ![k].downloaded = IF Exists(knobFile[k]) THEN TRUE ELSE @]
    /\ task' = [task EXCEPT ![t] =
          IF Exists(knobFile[k])
          THEN [@ EXCEPT !.pre = knobFile[k], !.had = knob[k].local_path,
                         !.req = 0, !.fail = 0,
                         !.kres = "path", !.pc = "c131"]
          ELSE IF UrlMissing(knob[k].download_url)
          THEN [@ EXCEPT !.pre = knobFile[k], !.had = knob[k].local_path,
                         !.req = 0, !.fail = 0,
                         !.kres = "", !.pc = "c131"]
          ELSE [@ EXCEPT !.pre = knobFile[k], !.had = knob[k].local_path,
                         !.req = 0, !.fail = 0,
                         !.attempt = 1, !.pc = "k93"]]
    /\ UNCHANGED <<service, knobFile, thumbFile, retry_attempts, lock, completed_ids,
                   failed_ids, status, run, submitted, calls>>

\* Lines 93-113.
K93(t) ==
    LET k == Record(t)
        a == task[t].attempt IN
    /\ task[t].pc = "k93"
    /\ IF ~InLoop(a)
       THEN /\ task' = [task EXCEPT ![t].kres = "", ![t].pc = "c131"]
            /\ UNCHANGED <<knobFile, knob>>
       ELSE \E o \in Outcomes :
            /\ knobFile' = [knobFile EXCEPT ![k] = FileAfter(@, o)]
            /\ knob' = [knob EXCEPT ![k].downloaded =
                           IF AttemptOk(o) THEN TRUE ELSE @]
            /\ task' = [task EXCEPT ![t] =
                  IF AttemptOk(o)
                  THEN [@ EXCEPT !.req = @ + 1, !.kres = "path", !.pc = "c131"]
                  ELSE IF ~Caught(o)
                  THEN [@ EXCEPT !.req = @ + 1, !.fail = @ + 1, !.pc = "raised"]
                  ELSE IF GoesOn(a)
                  THEN [@ EXCEPT !.req = @ + 1, !.fail = @ + 1,
                                 !.attempt = a + 1]
                  ELSE [@ EXCEPT !.req = @ + 1, !.fail = @ + 1,
                                 !.kres = "", !.pc = "c131"]]
    /\ UNCHANGED <<service, thumbFile, retry_attempts, lock, completed_ids,
                   failed_ids, status, run, submitted, calls>>

\* ------------------------- download_knob_complete: "Update tracking"
\* success = bool(knob_result)
SuccessAnyResult(t) == task[t].kres = "path" \/ task[t].tres = "path"
SuccessAllResults(t) == task[t].kres = "path" /\ task[t].tres # ""
Success(t) == task[t].kres = "path"

\* with self._lock:
C131(t) ==
    /\ task[t].pc = "c131"
    /\ lock = 0
    /\ lock' = t
    /\ task' = [task EXCEPT ![t].pc = "c132"]
    /\ UNCHANGED <<service, knob, knobFile, thumbFile, retry_attempts, completed_ids,
                   failed_ids, status, run, submitted, calls>>

\* Lines 132-133 and 135-136: the id goes to one of the two sets.
C132(t) ==
    LET k == task[t].knob IN
    /\ task[t].pc = "c132"
    /\ lock = t
    /\ IF Success(t)
       THEN /\ completed_ids' = completed_ids \cup {k}
            /\ task' = [task EXCEPT ![t].pc = "c134"]
            /\ UNCHANGED failed_ids
       ELSE /\ failed_ids' = failed_ids \cup {k}
            /\ task' = [task EXCEPT ![t].pc = "c137"]
            /\ UNCHANGED completed_ids
    /\ UNCHANGED <<service, knob, knobFile, thumbFile, retry_attempts, lock, status,
                   run, submitted, calls>>

\* Line 134: self.status.completed_items = len(self._completed_ids)
C134(t) ==
    /\ task[t].pc = "c134"
    /\ lock = t
    /\ status' = [status EXCEPT !.completed_items = Cardinality(completed_ids)]
    /\ task' = [task EXCEPT ![t].pc = "c137"]
    /\ UNCHANGED <<service, knob, knobFile, thumbFile, retry_attempts, lock,
                   completed_ids, failed_ids, run, submitted, calls>>

\* The with block ends (the lock is released); line 138: return success.
C137(t) ==
    /\ task[t].pc = "c137"
    /\ lock = t
    /\ lock' = 0
    /\ task' = [task EXCEPT ![t].pc = "c138",
                            ![t].ret = IF Success(t) THEN "true" ELSE "false"]
    /\ UNCHANGED <<service, knob, knobFile, thumbFile, retry_attempts, completed_ids,
                   failed_ids, status, run, submitted, calls>>

\* The caller has the result, or the exception that no handler of the task
\* took; the frame is gone.
TaskReturn(t) ==
    /\ \/ task[t].pc \in {"c138", "raised", "d486"}
       \/ task[t].pc = "s363" /\ ~task[t].dk
    /\ task' = [task EXCEPT ![t] = IdleTask]
    /\ UNCHANGED <<service, knob, knobFile, thumbFile, retry_attempts, lock,
                   completed_ids, failed_ids, status, run, submitted, calls>>


\* --------------------- data_service.py: download_knob_file_sync(knob)
\* The data service's single-file download works on the same asset records
\* and the same knobs directory.
CallFileSync(t, k) ==
    /\ task[t].pc = "idle"
    /\ run.pc = "idle"
    /\ ~Busy(k)
    /\ task' = [task EXCEPT ![t] = [IdleTask EXCEPT !.pc = "s336", !.knob = k]]
    /\ calls < MaxCalls
    /\ calls' = calls + 1
    /\ UNCHANGED <<service, knob, knobFile, thumbFile, retry_attempts, lock,
                   completed_ids, failed_ids, status, run, submitted>>

\* Lines 336-347.
S336(t) ==
    LET k == task[t].knob IN
    /\ task[t].pc = "s336"
    /\ knob' = [knob EXCEPT ![k].local_path = TRUE,
                            ![k].downloaded = IF Exists(knobFile[k]) THEN TRUE ELSE @]
    /\ task' = [task EXCEPT ![t] =
          IF Exists(knobFile[k])
          THEN [@ EXCEPT !.pre = knobFile[k], !.had = knob[k].local_path,
                         !.kres = "path", !.pc = "s363"]
          ELSE IF UrlMissing(knob[k].download_url)
          THEN [@ EXCEPT !.pre = knobFile[k], !.had = knob[k].local_path,
                         !.kres = "", !.pc = "s363"]
          ELSE [@ EXCEPT !.pre = knobFile[k], !.had = knob[k].local_path,
                         !.pc = "s349"]]
    /\ UNCHANGED <<service, knobFile, thumbFile, retry_attempts, lock, completed_ids,
                   failed_ids, status, run, submitted, calls>>

\* Lines 349-362: one attempt, no retry.
S349(t) ==
    LET k == task[t].knob IN
    /\ task[t].pc = "s349"
    /\ \E o \in Outcomes :
        /\ knobFile' = [knobFile EXCEPT ![k] = FileAfter(@, o)]
        /\ knob' = [knob EXCEPT ![k].downloaded = IF AttemptOk(o) THEN TRUE ELSE @]
        /\ task' = [task EXCEPT ![t] =
              IF AttemptOk(o)
              THEN [@ EXCEPT !.req = @ + 1, !.kres = "path", !.pc = "s363"]
              ELSE [@ EXCEPT !.req = @ + 1, !.fail = @ + 1, !.kres = "",
                             !.pc = "s363"]]
    /\ UNCHANGED <<service, thumbFile, retry_attempts, lock, completed_ids, failed_ids,
                   status, run, submitted, calls>>

\* ------------------------------------- download_assets_in_batches
MaxWorkers == 1
BatchSizes == (0 - 1)..MaxBatch
WorkerCounts == 0..MaxWorkers

\* range(0, total, batch_size) for batch_size # 0: the start indices (0-based).
RangeLenFloor(total, step) ==
    IF step > 0 THEN total \div step ELSE 0
RangeLen(total, step) ==
    IF step > 0 THEN (total + step - 1) \div step ELSE 0

Min(a, b) == IF a < b THEN a ELSE b

\* [knobs[i:i+batch_size] for i in range(0, total, batch_size)]
Batches(knobs, batch_size) ==
    [j \in 1..RangeLen(Len(knobs), batch_size) |->
        SubSeq(knobs, (j - 1) * batch_size + 1, Min(j * batch_size, Len(knobs)))]

\* The call (no argument is checked on entry) and lines 152-160: a new
\* ScrapeStatus; the constructor drops the message keyword.
R155(ks, bs, mw) ==
    /\ run.pc = "idle"
    /\ \A t \in Threads : task[t].pc = "idle"
    /\ calls < MaxCalls
    /\ calls' = calls + 1
    /\ status' = ScrapeStatus(TRUE, Len(ks), 0, FALSE)
    /\ run' = [IdleRun EXCEPT !.pc = "r163", !.knobs = ks, !.batch_size = bs,
                              !.max_workers = mw]
    /\ UNCHANGED <<service, knob, knobFile, thumbFile, retry_attempts, lock,
                   completed_ids, failed_ids, task, submitted>>

\* Lines 163-164.
R163KeepsIds ==
    /\ run.pc = "r163"
    /\ submitted' = {}
    /\ run' = [run EXCEPT !.pc = "r167"]
    /\ UNCHANGED <<service, knob, knobFile, thumbFile, retry_attempts, lock, status, task,
                   calls, completed_ids, failed_ids>>

R163 ==
    /\ run.pc = "r163"
    /\ completed_ids' = {}
    /\ failed_ids' = {}
    /\ submitted' = {}
    /\ run' = [run EXCEPT !.pc = "r167"]
    /\ UNCHANGED <<service, knob, knobFile, thumbFile, retry_attempts, lock, status, task, calls>>

\* Line 167: range() raises ValueError for a step of zero.  Line 172: the
\* loop over the batches is entered at its first batch (batch_index counts
\* from 1 here, enumerate from 0), or skipped when there is none.
R167 ==
    /\ run.pc = "r167"
    /\ run' = IF run.batch_size = 0
              THEN [run EXCEPT !.pc = "raised", !.err = "range_step_zero"]
              ELSE LET b == Batches(run.knobs, run.batch_size) IN
                   [run EXCEPT !.batches = b,
                               !.batch_index = IF b = <<>> THEN 0 ELSE 1,
                               !.pc = IF b = <<>> THEN "r204" ELSE "r177"]
    /\ UNCHANGED <<service, knob, knobFile, thumbFile, retry_attempts, lock,
                   completed_ids, failed_ids, status, task, submitted, calls>>

\* Line 177, first batch: self.status.message = batch_msg.  ScrapeStatus has
\* no such field, the assignment raises and the call ends here, before the
\* pool of line 180 is created.
R177 ==
    /\ run.pc = "r177"
    /\ ~HasField("message")
    /\ run' = [run EXCEPT !.pc = "raised", !.err = "no_field_message"]
    /\ UNCHANGED <<service, knob, knobFile, thumbFile, retry_attempts, lock,
                   completed_ids, failed_ids, status, task, submitted, calls>>

\* Line 204.
R204 ==
    /\ run.pc = "r204"
    /\ status' = [status EXCEPT !.in_progress = FALSE]
    /\ run' = [run EXCEPT !.pc = "r205"]
    /\ UNCHANGED <<service, knob, knobFile, thumbFile, retry_attempts, lock,
                   completed_ids, failed_ids, task, submitted, calls>>

\* Line 205.
R205 ==
    /\ run.pc = "r205"
    /\ status' = [status EXCEPT !.success = Cardinality(completed_ids) > 0]
    /\ run' = [run EXCEPT !.pc = "r206"]
    /\ UNCHANGED <<service, knob, knobFile, thumbFile, retry_attempts, lock,
                   completed_ids, failed_ids, task, submitted, calls>>

\* Line 206: the same undeclared field; line 208 is not reached.
R206 ==
    /\ run.pc = "r206"
    /\ ~HasField("message")
    /\ run' = [run EXCEPT !.pc = "raised", !.err = "no_field_message"]
    /\ UNCHANGED <<service, knob, knobFile, thumbFile, retry_attempts, lock,
                   completed_ids, failed_ids, status, task, submitted, calls>>

\* The exception has reached the caller; the frame is gone.
RunUnwind ==
    /\ run.pc = "raised"
    /\ run' = IdleRun
    /\ UNCHANGED <<service, knob, knobFile, thumbFile, retry_attempts, lock,
                   completed_ids, failed_ids, status, task, submitted, calls>>

\* ------------------------------------------------------ specification
Next ==
    \/ \E t \in Threads, k \in Knobs : CallComplete(t, k)
    \/ \E t \in Threads : C120(t)
    \/ \E t \in Threads : T44(t)
    \/ \E t \in Threads : T56(t)
    \/ \E t \in Threads : K79(t)
    \/ \E t \in Threads : K93(t)
    \/ \E t \in Threads : C131(t)
    \/ \E t \in Threads : C132(t)
    \/ \E t \in Threads : C134(t)
    \/ \E t \in Threads : C137(t)
    \/ \E t \in Threads : TaskReturn(t)
    \/ \E t \in Threads, k \in Knobs : CallFileSync(t, k)
    \/ \E t \in Threads : S336(t)
    \/ \E t \in Threads : S349(t)
    \/ \E ks \in KnobLists, bs \in BatchSizes, mw \in WorkerCounts : R155(ks, bs, mw)
    \/ R163
    \/ R167
    \/ R177
    \/ R204
    \/ R205
    \/ R206
    \/ RunUnwind

Spec == Init /\ [][Next]_vars

TypeOK ==
    /\ knob \in [Knobs -> KnobAsset]
    /\ knobFile \in [Knobs -> FileStates]
    /\ thumbFile \in [Knobs -> ThumbStates]
    /\ lock \in {0} \cup Threads
    /\ completed_ids \subseteq Knobs
    /\ failed_ids \subseteq Knobs


\* ---------------------------------------------------------- scheduling
\* The thread in download_assets_in_batches and each thread in a task keep
\* being scheduled: every statement of the code modelled here ends (a network
\* attempt by its response or its timeout, the lock by its holder's release).
RunStep == R163 \/ R167 \/ R177 \/ R204 \/ R205 \/ R206 \/ RunUnwind

TaskStep(t) ==
    \/ C120(t) \/ T44(t) \/ T56(t) \/ K79(t) \/ K93(t)
    \/ C131(t) \/ C132(t) \/ C134(t) \/ C137(t) \/ TaskReturn(t)
    \/ S336(t) \/ S349(t)

FairSpec ==
    /\ Spec
    /\ WF_vars(RunStep)
    /\ \A t \in Threads : WF_vars(TaskStep(t))

\* ------------------------------------------- runs over longer lists
\* The run alone (lines 140-208), over lists long enough for several
\* batches with a shorter last one.  The list holds ids only: no step of the
\* run before line 180 reads an asset record.
MaxAssets == 5
MaxPartBatch == 3

AssetLists ==
    {[i \in 1..n |-> i] : n \in 0..MaxAssets}
        \cup {[i \in 1..n |-> n + 1 - i] : n \in 0..MaxAssets}

PartInit ==
    /\ Init
    /\ retry_attempts = MaxRetry
    /\ knob = [k \in Knobs |-> NewKnobAsset(TRUE, TRUE)]

PartNext ==
    \/ \E ks \in AssetLists, bs \in 1..MaxPartBatch : R155(ks, bs, MaxWorkers)
    \/ R163
    \/ R167
    \/ R177
    \/ R204
    \/ R205
    \/ R206
    \/ RunUnwind

SpecPartition == PartInit /\ [][PartNext]_vars

\* ------------------------------------------- api/settings.py, config.py
\* One EnhancedDownloader that nobody calls.
DownloaderAtRest ==
    /\ knob = [k \in Knobs |-> NewKnobAsset(TRUE, TRUE)]
    /\ knobFile = [k \in Knobs |-> "absent"]
    /\ thumbFile = [k \in Knobs |-> "absent"]
    /\ retry_attempts = MaxRetry
    /\ lock = 0
    /\ completed_ids = {}
    /\ failed_ids = {}
    /\ status = ScrapeStatus(FALSE, 0, 0, FALSE)
    /\ run = IdleRun
    /\ task = [t \in Threads |-> IdleTask]
    /\ submitted = {}
    /\ calls = 0

MaxSetting == 2

\* A field of SettingsUpdate: absent from the request (None) or an integer.
SettingInputs == {None} \cup {Some(v) : v \in (0 - 1)..MaxSetting}

\* if settings_update.<field>: Python truth of an Optional[int].
Truthy(x) == x # None /\ x[1] # 0

\* update_settings (lines 33-95): the fields that are given and true are
\* written to .env (lines 52-67) and to the settings object (lines 82-92).
UpdateSettings(u) ==
    /\ env_file' = [k \in Keys |-> IF Truthy(u[k]) THEN u[k] ELSE env_file[k]]
    /\ settings' = [k \in Keys |-> IF Truthy(u[k]) THEN u[k][1] ELSE settings[k]]
    /\ UNCHANGED <<knob, knobFile, thumbFile, retry_attempts, lock,
                   completed_ids, failed_ids, status, run, task, submitted,
                   calls, scrape_status, scrape, posts, multi, listing>>

\* config.py, lines 15-18: the settings are positive integers at the start.
SettingsInit ==
    /\ DownloaderAtRest
    /\ ServiceAtRest
    /\ settings \in [Keys -> 1..MaxSetting]

SettingsNext == \E u \in [Keys -> SettingInputs] : UpdateSettings(u)

SpecSettings == SettingsInit /\ [][SettingsNext]_vars

\* --------------------------- api/data.py: POST /scrape; scrape_all_knobs
\* The variables of EnhancedDownloader and of the asset files.
downloader == <<knobFile, thumbFile, retry_attempts, lock, completed_ids,
                failed_ids, status, run, task, submitted, calls>>

MaxPosts == 3
MaxItems == 2

\* How client.get(...?m=list) and the parsing of its body end: a non-empty
\* JSON list, the empty list, a transport error, a non-success status
\* (raise_for_status), a body json.loads rejects.
FetchFailures == {"transport", "status", "json"}
FetchOutcomes == {"list", "empty"} \cup FetchFailures

\* fetch_knob_list, lines 137-142: except Exception takes every failure of
\* the try block and returns []; no outcome leaves the function by raising.
FetchRaises(o) == FALSE

\* A scrape_all_knobs coroutine that has started and has not returned.
Running(i) == scrape[i].pc \in {"fetching", "closing"}

FreeScrape ==
    CHOOSE i \in Scrapes :
        scrape[i].pc = "none" /\ \A j \in Scrapes : scrape[j].pc = "none" => i <= j

\* scrape_gallery (lines 32-43): a request that reads in_progress = True
\* answers "already in progress"; any other adds scrape_all_knobs to the
\* background tasks, which run after the response has been sent.
PostScrape ==
    /\ posts < MaxPosts
    /\ posts' = posts + 1
    /\ IF scrape_status.in_progress
       THEN UNCHANGED scrape
       ELSE /\ \E i \in Scrapes : scrape[i].pc = "none"
            /\ scrape' = [scrape EXCEPT ![FreeScrape].pc = "queued"]
    /\ UNCHANGED <<scrape_status, settings, env_file, multi, listing, knob, downloader>>

\* The background task starts: scrape_all_knobs lines 364-371, then
\* fetch_knob_list lines 94-102 up to await client.get.
ScrapeStart(i) ==
    /\ scrape[i].pc = "queued"
    /\ scrape_status' = ScrapeStatus(TRUE, 0, 0, FALSE)
    /\ scrape' = [scrape EXCEPT ![i].pc = "fetching"]
    /\ UNCHANGED <<posts, settings, env_file, multi, listing, knob, downloader>>

\* The response is there: lines 102-135, up to the exit of
\* "async with httpx.AsyncClient()", which awaits the client's close.
FetchDone(i) ==
    /\ scrape[i].pc = "fetching"
    /\ \E o \in FetchOutcomes, n \in 1..MaxItems :
        LET len == IF o = "list" THEN n ELSE 0 IN
        /\ scrape' = [scrape EXCEPT ![i].pc = "closing", ![i].fetched = o,
                                    ![i].items = len]
        /\ scrape_status' = IF o \in FetchFailures THEN scrape_status
                            ELSE [scrape_status EXCEPT !.total_items = len]
    /\ UNCHANGED <<posts, settings, env_file, multi, listing, knob, downloader>>

\* scrape_status after fetch_knob_list has ended with outcome o (line 140).
AfterFetch(o) ==
    IF o \in FetchFailures /\ ~FetchRaises(o)
    THEN [scrape_status EXCEPT !.in_progress = FALSE]
    ELSE scrape_status

\* The client is closed: fetch_knob_list's handler (lines 137-142) or its
\* return, then scrape_all_knobs lines 372-391 with no await in between.
\* scrape_gallery_html runs only if fetch_knob_list raised (lines 372-374);
\* n is the length of the list it returns.  Every item of a list is taken to
\* be well-formed, so process_knob_data keeps them all, and the records of the
\* service are replaced by new ones (lines 380-381).
ScrapeFinish(i) ==
    /\ scrape[i].pc = "closing"
    /\ \E n \in 0..MaxItems :
        LET o == scrape[i].fetched
            fallback == o \in FetchFailures /\ FetchRaises(o)
            knob_data == IF fallback THEN n ELSE scrape[i].items
        IN
        /\ scrape' = [scrape EXCEPT ![i].pc = "done", ![i].html = fallback,
                                    ![i].items = knob_data,
                                    ![i].result = IF knob_data = 0 THEN "false"
                                                  ELSE "true"]
        /\ scrape_status' =
              IF knob_data = 0 THEN AfterFetch(o)
              ELSE [AfterFetch(o) EXCEPT !.in_progress = FALSE,
                                         !.completed_items = knob_data,
                                         !.success = TRUE]
        /\ knob' = IF knob_data = 0 THEN knob
                   ELSE [k \in Knobs |-> NewKnobAsset(TRUE, TRUE)]
    /\ UNCHANGED <<posts, settings, env_file, multi, listing, downloader>>

ScrapeInit ==
    /\ DownloaderAtRest
    /\ ServiceAtRest
    /\ settings = [k \in Keys |-> 1]

ScrapeNext ==
    \/ PostScrape
    \/ \E i \in Scrapes : ScrapeStart(i)
    \/ \E i \in Scrapes : FetchDone(i)
    \/ \E i \in Scrapes : ScrapeFinish(i)

SpecScrape == ScrapeInit /\ [][ScrapeNext]_vars

\* ------------------------------- data_service.py: download_knob(knob_id)
\* POST /knobs/{knob_id}/download.  download_knob is a coroutine that never
\* awaits: it submits the two downloads to a pool of its own and waits for
\* them inside the event loop's thread, so its calls come one after another.
\* The two workers write different fields of the record and different files;
\* the frame follows the thumbnail's worker, then the knob file's.

\* Ids a request can name: those of the records in self.knobs, and 0, which
\* no record has.
KnobIds == 0..NKnobs

\* get_knob_by_id (lines 86-91).
Found(id) == id \in Knobs

\* The call: lines 455-457.
DCall(t, id) ==
    /\ \A u \in Threads : task[u].pc = "idle"
    /\ run.pc = "idle"
    /\ calls < MaxCalls
    /\ calls' = calls + 1
    /\ task' = [task EXCEPT ![t] =
          IF Found(id)
          THEN [IdleTask EXCEPT !.pc = "d465", !.knob = id, !.dk = TRUE]
          ELSE [IdleTask EXCEPT !.pc = "d486", !.ret = "not_found", !.dk = TRUE]]
    /\ UNCHANGED <<service, knob, knobFile, thumbFile, retry_attempts, lock,
                   completed_ids, failed_ids, status, run, submitted>>

\* Lines 465-466: the thumbnail is submitted only if needed.
D465(t) ==
    /\ task[t].pc = "d465"
    /\ task' = [task EXCEPT ![t].pc =
          IF ThumbNeeded(task[t].knob) THEN "d278" ELSE "s336"]
    /\ UNCHANGED <<service, knob, knobFile, thumbFile, retry_attempts, lock,
                   completed_ids, failed_ids, status, run, submitted, calls>>

\* download_thumbnail_sync, lines 278-287.
D278(t) ==
    LET k == task[t].knob IN
    /\ task[t].pc = "d278"
    /\ knob' = [knob EXCEPT ![k].local_thumbnail_path = TRUE]
    /\ task' = [task EXCEPT ![t] =
          IF Exists(thumbFile[k]) THEN [@ EXCEPT !.tres = "path", !.pc = "s336"]
          ELSE IF UrlMissing(knob[k].thumbnail_url)
          THEN [@ EXCEPT !.tres = "", !.pc = "s336"]
          ELSE [@ EXCEPT !.pc = "d290"]]
    /\ UNCHANGED <<service, knobFile, thumbFile, retry_attempts, lock,
                   completed_ids, failed_ids, status, run, submitted, calls>>

\* download_thumbnail_sync, lines 289-301: one attempt, no retry.
D290(t) ==
    LET k == task[t].knob IN
    /\ task[t].pc = "d290"
    /\ \E o \in Outcomes :
        /\ thumbFile' = [thumbFile EXCEPT ![k] = ThumbAfter(@, o)]
        /\ task' = [task EXCEPT ![t].tres = IF AttemptOk(o) THEN "path" ELSE "",
                                ![t].pc = "s336"]
    /\ UNCHANGED <<service, knob, knobFile, retry_attempts, lock, completed_ids,
                   failed_ids, status, run, submitted, calls>>

\* any(results): some worker returned a non-empty string.
AnyResults(t) == task[t].tres = "path" \/ task[t].kres = "path"

\* Lines 481-485, after both workers have returned.
D481(t) ==
    /\ task[t].pc = "s363"
    /\ task[t].dk
    /\ task' = [task EXCEPT ![t].pc = "d486",
                            ![t].ret = IF AnyResults(t) /\ knob[task[t].knob].downloaded
                                       THEN "true" ELSE "false"]
    /\ UNCHANGED <<service, knob, knobFile, thumbFile, retry_attempts, lock,
                   completed_ids, failed_ids, status, run, submitted, calls>>

\* The records _load_cached_knobs reads from knobs.json (lines 50-60): as
\* process_knob_data built them, with both URLs, and with the paths and the
\* downloaded flag as they were when the cache was last saved.
CachedAssets ==
    {a \in KnobAsset : a.thumbnail_url /\ a.download_url
                       /\ (a.downloaded => a.local_path)}

\* The service after a start: the cache loaded, the download directories as
\* they are found on the disk.
SingleInit ==
    /\ knob \in [Knobs -> CachedAssets]
    /\ knobFile \in [Knobs -> FileStates]
    /\ thumbFile \in [Knobs -> ThumbStates]
    /\ retry_attempts = MaxRetry
    /\ lock = 0
    /\ completed_ids = {}
    /\ failed_ids = {}
    /\ status = ScrapeStatus(FALSE, 0, 0, FALSE)
    /\ run = IdleRun
    /\ task = [t \in Threads |-> IdleTask]
    /\ submitted = {}
    /\ calls = 0
    /\ ServiceAtRest
    /\ settings = [k \in Keys |-> 1]

SingleNext ==
    \/ \E t \in Threads, id \in KnobIds : DCall(t, id)
    \/ \E t \in Threads : D465(t)
    \/ \E t \in Threads : D278(t)
    \/ \E t \in Threads : D290(t)
    \/ \E t \in Threads : S336(t)
    \/ \E t \in Threads : S349(t)
    \/ \E t \in Threads : D481(t)
    \/ \E t \in Threads : TaskReturn(t)

SpecSingle == SingleInit /\ [][SingleNext]_vars

\* ------------------- data_service.py: download_multiple_knobs(knob_ids)
\* POST /knobs/batch-download runs it as a background task.  Its pool has
\* min(20, 2 * cpu_count) >= 2 workers, the Threads of the model; the loop
\* over as_completed, which owns the counter, runs in the calling thread.
MaxReq == 3
MaxBatchCalls == 1

RECURSIVE ListsOver(_, _)
ListsOver(S, n) ==
    IF n = 0 THEN {<<>>}
    ELSE LET shorter == ListsOver(S, n - 1) IN
         shorter \cup {Append(s, x) : s \in shorter, x \in S}

\* A request body: ids in any order, repeated or unknown ones included.
Requests == ListsOver(KnobIds, MaxReq)

\* Lines 497-501: the records of the ids that get_knob_by_id finds, one per
\* occurrence, in the request's order.
ValidKnobs(ids) == SelectSeq(ids, Found)

\* Lines 543-548 and 551-552: one future's result is counted.
CountLosesFailures(m, ok) ==
    IF ok THEN [m EXCEPT !.completed = @ + 1] ELSE m
Count(m, ok) ==
    IF ok THEN [m EXCEPT !.completed = @ + 1] ELSE [m EXCEPT !.failed = @ + 1]

\* Lines 496-512 and the submission of lines 533-536; with no valid knob the
\* call returns at line 504.
MCall(ids) ==
    /\ multi.pc = "idle"
    /\ \A t \in Threads : task[t].pc = "idle"
    /\ calls < MaxBatchCalls
    /\ calls' = calls + 1
    /\ multi' =
          LET v == ValidKnobs(ids) IN
          IF v = <<>>
          THEN [IdleMulti EXCEPT !.pc = "returned", !.ids = ids, !.ret = "false",
                                 !.msg = "no_valid"]
          ELSE [IdleMulti EXCEPT !.pc = "pool", !.ids = ids, !.valid = v,
                                 !.fut = [j \in 1..Len(v) |-> "queued"]]
    /\ UNCHANGED <<settings, env_file, scrape_status, scrape, posts, listing,
                   knob, knobFile, thumbFile, retry_attempts, lock,
                   completed_ids, failed_ids, status, run, task, submitted>>

\* The queue of the pool is first in, first out.
NextQueued ==
    CHOOSE j \in 1..Len(multi.fut) :
        multi.fut[j] = "queued" /\ \A i \in 1..(j - 1) : multi.fut[i] # "queued"

\* A free worker takes the next future and enters the inner
\* download_knob_complete (line 514).
MStart(t) ==
    /\ multi.pc = "pool"
    /\ task[t].pc = "idle"
    /\ \E j \in 1..Len(multi.fut) : multi.fut[j] = "queued"
    /\ multi' = [multi EXCEPT !.fut[NextQueued] = "running", !.by[t] = NextQueued]
    /\ task' = [task EXCEPT ![t] =
          [IdleTask EXCEPT !.pc = "d465", !.knob = multi.valid[NextQueued]]]
    /\ UNCHANGED <<settings, env_file, scrape_status, scrape, posts, listing,
                   knob, knobFile, thumbFile, retry_attempts, lock,
                   completed_ids, failed_ids, status, run, submitted, calls>>

\* Line 528: return bool(knob_result); the future is done.
MDone(t) ==
    /\ multi.pc = "pool"
    /\ task[t].pc = "s363"
    /\ multi' = [multi EXCEPT !.fut[multi.by[t]] =
                      IF task[t].kres = "path" THEN "done_true" ELSE "done_false",
                              !.by[t] = 0]
    /\ task' = [task EXCEPT ![t] = IdleTask]
    /\ UNCHANGED <<settings, env_file, scrape_status, scrape, posts, listing,
                   knob, knobFile, thumbFile, retry_attempts, lock,
                   completed_ids, failed_ids, status, run, submitted, calls>>

\* Lines 539-552: as_completed hands over a finished future.
MCount(j) ==
    /\ multi.pc = "pool"
    /\ j \in 1..Len(multi.fut)
    /\ multi.fut[j] \in {"done_true", "done_false"}
    /\ multi' = [Count(multi, multi.fut[j] = "done_true") EXCEPT !.fut[j] = "counted"]
    /\ UNCHANGED <<settings, env_file, scrape_status, scrape, posts, listing,
                   knob, knobFile, thumbFile, retry_attempts, lock,
                   completed_ids, failed_ids, status, run, task, submitted, calls>>

\* Lines 555-560, once every future has been handed over.
MReturn ==
    /\ multi.pc = "pool"
    /\ \A j \in 1..Len(multi.fut) : multi.fut[j] = "counted"
    /\ multi' = [multi EXCEPT !.pc = "returned", !.msg = "summary",
                              !.ret = IF multi.completed > 0 THEN "true" ELSE "false"]
    /\ UNCHANGED <<settings, env_file, scrape_status, scrape, posts, listing,
                   knob, knobFile, thumbFile, retry_attempts, lock,
                   completed_ids, failed_ids, status, run, task, submitted, calls>>

\* The background task is over; the frame is gone.
MUnwind ==
    /\ multi.pc = "returned"
    /\ multi' = IdleMulti
    /\ UNCHANGED <<settings, env_file, scrape_status, scrape, posts, listing,
                   knob, knobFile, thumbFile, retry_attempts, lock,
                   completed_ids, failed_ids, status, run, task, submitted, calls>>

\* The records as process_knob_data or an older cache left them (a URL may
\* be missing), nothing downloaded yet.
MultiInit ==
    /\ knob \in [Knobs -> {NewKnobAsset(t, d) : t \in BOOLEAN, d \in BOOLEAN}]
    /\ knobFile = [k \in Knobs |-> "absent"]
    /\ thumbFile = [k \in Knobs |-> "absent"]
    /\ retry_attempts = MaxRetry
    /\ lock = 0
    /\ completed_ids = {}
    /\ failed_ids = {}
    /\ status = ScrapeStatus(FALSE, 0, 0, FALSE)
    /\ run = IdleRun
    /\ task = [t \in Threads |-> IdleTask]
    /\ submitted = {}
    /\ calls = 0
    /\ ServiceAtRest
    /\ settings = [k \in Keys |-> 1]

MultiNext ==
    \/ \E ids \in Requests : MCall(ids)
    \/ \E t \in Threads : MStart(t)
    \/ \E t \in Threads : D465(t)
    \/ \E t \in Threads : D278(t)
    \/ \E t \in Threads : D290(t)
    \/ \E t \in Threads : S336(t)
    \/ \E t \in Threads : S349(t)
    \/ \E t \in Threads : MDone(t)
    \/ \E j \in 1..MaxReq : MCount(j)
    \/ MReturn
    \/ MUnwind

SpecMulti == MultiInit /\ [][MultiNext]_vars

\* ------------------- enhanced_download.py: download_thumbnails_only(knobs)
\* Lines 220-233: the configuration is read from settings, the counters
\* completed and failed are local and start at 0, the status is a new
\* ScrapeStatus (the constructor drops the message keyword).
TO220(ks) ==
    /\ run.pc = "idle"
    /\ \A t \in Threads : task[t].pc = "idle"
    /\ calls < MaxCalls
    /\ calls' = calls + 1
    /\ status' = ScrapeStatus(TRUE, Len(ks), 0, FALSE)
    /\ run' = [IdleRun EXCEPT !.pc = "t236", !.knobs = ks,
                              !.batch_size = settings["DOWNLOAD_BATCH_SIZE"],
                              !.max_workers = settings["MAX_DOWNLOAD_WORKERS"]]
    /\ UNCHANGED <<service, knob, knobFile, thumbFile, retry_attempts, lock,
                   completed_ids, failed_ids, task, submitted>>

\* Lines 236-237.
TO236 ==
    /\ run.pc = "t236"
    /\ completed_ids' = {}
    /\ failed_ids' = {}
    /\ submitted' = {}
    /\ run' = [run EXCEPT !.pc = "t240"]
    /\ UNCHANGED <<service, knob, knobFile, thumbFile, retry_attempts, lock,
                   status, task, calls>>

\* Line 240 (range() raises for a step of zero) and the entry of the loop of
\* line 242.
TO240 ==
    /\ run.pc = "t240"
    /\ run' = IF run.batch_size = 0
              THEN [run EXCEPT !.pc = "raised", !.err = "range_step_zero"]
              ELSE LET b == Batches(run.knobs, run.batch_size) IN
                   [run EXCEPT !.batches = b,
                               !.batch_index = IF b = <<>> THEN 0 ELSE 1,
                               !.pc = IF b = <<>> THEN "t272" ELSE "t245"]
    /\ UNCHANGED <<service, knob, knobFile, thumbFile, retry_attempts, lock,
                   completed_ids, failed_ids, status, task, submitted, calls>>

\* Line 245, first batch: self.status.message = batch_msg raises, before the
\* pool of line 247 is created.
TO245 ==
    /\ run.pc = "t245"
    /\ ~HasField("message")
    /\ run' = [run EXCEPT !.pc = "raised", !.err = "no_field_message"]
    /\ UNCHANGED <<service, knob, knobFile, thumbFile, retry_attempts, lock,
                   completed_ids, failed_ids, status, task, submitted, calls>>

\* Lines 272-273, reached only when there is no batch: the local counter
\* completed still has its initial value.
TO272 ==
    /\ run.pc = "t272"
    /\ status' = LET completed == 0 IN
                 [status EXCEPT !.in_progress = FALSE, !.success = completed > 0]
    /\ run' = [run EXCEPT !.pc = "t274"]
    /\ UNCHANGED <<service, knob, knobFile, thumbFile, retry_attempts, lock,
                   completed_ids, failed_ids, task, submitted, calls>>

\* Line 274: the same undeclared field; line 276 is not reached.
TO274 ==
    /\ run.pc = "t274"
    /\ ~HasField("message")
    /\ run' = [run EXCEPT !.pc = "raised", !.err = "no_field_message"]
    /\ UNCHANGED <<service, knob, knobFile, thumbFile, retry_attempts, lock,
                   completed_ids, failed_ids, status, task, submitted, calls>>

ThumbsNext ==
    \/ \E ks \in KnobLists : TO220(ks)
    \/ TO236
    \/ TO240
    \/ TO245
    \/ TO272
    \/ TO274
    \/ RunUnwind

\* Any positive settings, a downloader nobody has called yet.
SpecThumbs == SettingsInit /\ [][ThumbsNext]_vars

\* ----------------------- data_service.py: get_all_knobs(page, limit)
MaxCatalog == 4
MaxLimit == 3
MaxPage == 5

\* self.knobs: records with pairwise-distinct ids, in any order.
Catalogs == SeqsOver(1..MaxCatalog)

\* GET /knobs: page and limit are Query(..., ge=1) (api/data.py, lines 18-19).
PageInputs == 1..MaxPage
LimitInputs == 1..MaxLimit

\* s[a:b] of Python for a list s: a negative bound counts from the end, both
\* bounds are clipped to the list, an empty range gives [].
PyBound(n, i) == IF i < 0 THEN (IF n + i < 0 THEN 0 ELSE n + i) ELSE Min(i, n)
PySlice(s, a, b) == SubSeq(s, PyBound(Len(s), a) + 1, PyBound(Len(s), b))

\* Lines 74-77.
KnobsSubset(knobs, page, limit) ==
    LET start == (page - 1) * limit
        end == start + limit
    IN IF start < Len(knobs) THEN PySlice(knobs, start, end) ELSE <<>>

\* Line 78.
TotalPagesFloor(n, limit) == IF n > 0 THEN n \div limit ELSE 1
TotalPages(n, limit) == IF n > 0 THEN (n + limit - 1) \div limit ELSE 1

\* Lines 72-85: the response for one request.
GetAllKnobs(page, limit) ==
    /\ listing' = [listing EXCEPT
          !.page = page, !.limit = limit,
          !.resp_knobs = KnobsSubset(listing.knobs, page, limit),
          !.total = Len(listing.knobs),
          !.total_pages = TotalPages(Len(listing.knobs), limit)]
    /\ UNCHANGED <<settings, env_file, scrape_status, scrape, posts, multi,
                   knob, downloader>>

PagesInit ==
    /\ DownloaderAtRest
    /\ settings = [k \in Keys |-> 1]
    /\ env_file = [k \in Keys |-> None]
    /\ scrape_status = ScrapeStatus(FALSE, 0, 0, FALSE)
    /\ scrape = [i \in Scrapes |-> NoScrape]
    /\ posts = 0
    /\ multi = IdleMulti
    /\ listing \in {[NoListing EXCEPT !.knobs = ks] : ks \in Catalogs}

PagesNext == \E page \in PageInputs, limit \in LimitInputs : GetAllKnobs(page, limit)

SpecPages == PagesInit /\ [][PagesNext]_vars

\* ------------------------------------------------------------ claims
\* Where a frame stands.
AtThumbReturn(t) == task[t].pc = "k79" /\ task[t].tres # "none"
AtKnobReturn(t) == task[t].pc = "c131"
AtCompleteReturn(t) == task[t].pc = "c138"
Quiescent == \A t \in Threads : task[t].pc = "idle"

\* download_assets_in_batches has ended: by the exception that unwinds it, or
\* by the return of line 208 (pc "returned", which no step of the code sets).
RunOver == run.pc \in {"raised", "returned"}
ValidConfig == run.batch_size >= 1 /\ run.max_workers >= 1
InList(k) == \E i \in 1..Len(run.knobs) : run.knobs[i] = k

\* C1: for N assets with distinct ids, batch_size >= 1 and max_workers >= 1,
\* download_assets_in_batches returns (completed, failed) with
\* completed + failed = N.
C1_ReturnsAllCounted ==
    (RunOver /\ ValidConfig) =>
        /\ run.pc = "returned"
        /\ Cardinality(completed_ids) + Cardinality(failed_ids) = Len(run.knobs)

\* C3: thumbnail failure isolation.  When download_knob_complete returns for
\* an asset whose thumbnail fetch failed (no URL, or every attempt failed) and
\* whose payload fetch succeeded, it returns true, the asset is downloaded and
\* its id is in the completed set and not in the failed set.
C3_ThumbnailFailureIsolated ==
    \A t \in Threads :
        (AtCompleteReturn(t) /\ task[t].tres = "" /\ task[t].kres = "path") =>
            /\ task[t].ret = "true"
            /\ knob[task[t].knob].downloaded
            /\ task[t].knob \in completed_ids
            /\ task[t].knob \notin failed_ids

\* A task returns after its thumbnail fetch used up its attempts and its
\* payload fetch went to the network and succeeded.
C3_Witness ==
    \E t \in Threads :
        /\ AtCompleteReturn(t)
        /\ task[t].tres = ""
        /\ knob[task[t].knob].thumbnail_url
        /\ task[t].kres = "path"
        /\ task[t].req >= 1

\* The part of C4 that is about one task: a payload file that exists when
\* download_knob_with_retry is entered costs no request, the path is
\* returned, downloaded is set and the task counts the asset as completed.
C4_SkipInTask ==
    \A t \in Threads :
        /\ (task[t].pc \in {"c131", "c132", "c134", "c137", "c138"}
              /\ Exists(task[t].pre)) =>
                /\ task[t].req = 0
                /\ task[t].kres = "path"
                /\ knob[task[t].knob].downloaded
        /\ (AtCompleteReturn(t) /\ Exists(task[t].pre)) =>
                /\ task[t].ret = "true"
                /\ task[t].knob \in completed_ids

\* C4: idempotent skip.  An existing payload file costs no request and the
\* asset counts as completed; in particular a run over assets whose payload
\* files all exist returns (N, 0).
C4_IdempotentSkip ==
    /\ C4_SkipInTask
    /\ (RunOver /\ ValidConfig /\ Len(run.knobs) >= 1
          /\ \A k \in Knobs : InList(k) => Exists(knobFile[k])) =>
            /\ run.pc = "returned"
            /\ Cardinality(completed_ids) = Len(run.knobs)
            /\ failed_ids = {}

\* What C5 says of one fetch that has returned res: every attempt failed and
\* there were exactly retry_attempts of them, or attempt number req (at most
\* retry_attempts) was the first to succeed.
RetryBound(t, res) ==
    /\ res = "" => task[t].req = retry_attempts /\ task[t].fail = retry_attempts
    /\ res = "path" => /\ task[t].req = task[t].fail + 1
                      /\ task[t].req <= retry_attempts

\* C5: retry bound.  For a non-empty URL and a destination that does not
\* exist, both fetch functions send exactly retry_attempts requests and
\* return "" when every attempt fails, and exactly k requests and the path
\* when attempt k is the first to succeed.
C5_RetryBound ==
    \A t \in Threads :
        /\ (AtThumbReturn(t) /\ knob[task[t].knob].thumbnail_url
              /\ task[t].pre = "absent") => RetryBound(t, task[t].tres)
        /\ (AtKnobReturn(t) /\ knob[task[t].knob].download_url
              /\ task[t].pre = "absent") => RetryBound(t, task[t].kres)

\* download_knob_with_retry returns the path after its first attempt failed
\* and its second succeeded.
C5_Witness ==
    \E t \in Threads :
        /\ AtKnobReturn(t)
        /\ knob[task[t].knob].download_url
        /\ task[t].pre = "absent"
        /\ task[t].kres = "path"
        /\ task[t].req = 2
        /\ task[t].fail = 1

\* C6: no partial file on failure.  When a fetch function returns "" for a
\* destination that did not exist before the call, no file is at the
\* destination.
C6_NoPartialFile ==
    \A t \in Threads :
        /\ (AtThumbReturn(t) /\ task[t].tres = "" /\ task[t].pre = "absent")
              => thumbFile[task[t].knob] = "absent"
        /\ (AtKnobReturn(t) /\ task[t].kres = "" /\ task[t].pre = "absent")
              => knobFile[task[t].knob] = "absent"

\* C7: record invariant.  Between calls, an asset with downloaded = true has
\* local_path set to a file that exists and is not empty.
C7_DownloadedHasFile ==
    Quiescent =>
        \A k \in Knobs :
            knob[k].downloaded => (knob[k].local_path /\ knobFile[k] = "bytes")

\* C8: missing payload URL.  When download_knob_complete returns for an asset
\* without a download URL whose payload file did not exist, no payload request
\* was sent, the result is false, the id is in the failed set and not in the
\* completed set, and downloaded is false.
C8_MissingPayloadUrl ==
    \A t \in Threads :
        (AtCompleteReturn(t) /\ ~knob[task[t].knob].download_url
            /\ task[t].pre = "absent") =>
            /\ task[t].req = 0
            /\ task[t].ret = "false"
            /\ task[t].knob \in failed_ids
            /\ task[t].knob \notin completed_ids
            /\ ~knob[task[t].knob].downloaded

\* A task returns for an asset without a download URL and without a file.
C8_Witness ==
    \E t \in Threads :
        /\ AtCompleteReturn(t)
        /\ ~knob[task[t].knob].download_url
        /\ task[t].pre = "absent"
        /\ task[t].ret = "false"

\* An asset whose task can only fail: no download URL and no payload file.
FailingAsset(k) == ~knob[k].download_url /\ ~Exists(knobFile[k])

\* C9: failure locality.  A run whose list holds an asset whose task fails
\* still returns its counts: that asset is counted as failed, once, and every
\* other asset of the list has had its task run.
C9_FailureIsLocal ==
    (RunOver /\ ValidConfig /\ \E k \in Knobs : InList(k) /\ FailingAsset(k)) =>
        /\ run.pc = "returned"
        /\ \A k \in Knobs :
              InList(k) =>
                  /\ k \in completed_ids \cup failed_ids
                  /\ FailingAsset(k) => (k \in failed_ids /\ k \notin completed_ids)

\* C10: input validation.  A call with batch_size <= 0 or max_workers <= 0 is
\* rejected with an error before the list is partitioned: it never gets past
\* line 167, and it ends by the error of that line at the latest.
C10_ConfigRejected ==
    (run.pc # "idle" /\ ~ValidConfig) =>
        /\ run.pc \in {"r163", "r167", "raised"}
        /\ run.pc = "raised" => run.err = "range_step_zero"

\* ceil(n / b) for b >= 1, by its definition: the least q with q * b >= n.
Ceil(n, b) == CHOOSE q \in 0..n : q * b >= n /\ \A r \in 0..n : r * b >= n => q <= r

\* The list has been partitioned (line 167 has run without raising).
Partitioned == run.pc \in {"r177", "r204", "r205", "r206"} /\ run.batch_size >= 1

\* Where the elements of batch j sit in the input list.
BatchSlots(j) ==
    ((j - 1) * run.batch_size + 1)..Min(j * run.batch_size, Len(run.knobs))

\* C11: for N assets and batch_size b >= 1 the run forms exactly ceil(N/b)
\* batches; batch j holds the assets at input positions (j-1)*b+1 .. min(j*b, N)
\* in input order, so every asset is in exactly one batch and every batch but
\* the last has exactly b assets; the loop of line 172 takes the batches in
\* that order, starting at the first.
C11_Partitioning ==
    Partitioned =>
        LET N == Len(run.knobs)
            b == run.batch_size
            B == run.batches
        IN  /\ Len(B) = Ceil(N, b)
            /\ \A j \in 1..Len(B) :
                  /\ Len(B[j]) = Cardinality(BatchSlots(j))
                  /\ Len(B[j]) >= 1
                  /\ \A i \in 1..Len(B[j]) : B[j][i] = run.knobs[(j - 1) * b + i]
                  /\ j < Len(B) => Len(B[j]) = b
            /\ \A p \in 1..N :
                  Cardinality({j \in 1..Len(B) : p \in BatchSlots(j)}) = 1
            /\ run.pc = "r177" => run.batch_index = 1

\* Five assets and batch_size 2: three batches of sizes 2, 2, 1.
C11_Witness ==
    /\ run.pc = "r177"
    /\ Len(run.knobs) = 5
    /\ run.batch_size = 2
    /\ Len(run.batches) = 3
    /\ Len(run.batches[1]) = 2
    /\ Len(run.batches[2]) = 2
    /\ Len(run.batches[3]) = 1

\* C12: finalization.  When the call of download_assets_in_batches is over,
\* the status has in_progress = false, success = (completed > 0) and
\* completed_items = completed.
C12_FinalStatus ==
    (RunOver /\ ValidConfig) =>
        /\ ~status.in_progress
        /\ status.success = (Cardinality(completed_ids) > 0)
        /\ status.completed_items = Cardinality(completed_ids)

\* C13: snapshot consistency.  Whatever moment a reader looks at the status,
\* a status with in_progress = false after a run started has
\* success = (completed_items > 0), and completed_items is the number of
\* assets recorded as completed.
C13_SnapshotConsistent ==
    /\ (run.pc # "idle" /\ ~status.in_progress) =>
            status.success = (status.completed_items > 0)
    /\ status.completed_items = Cardinality(completed_ids)

\* C14: the payload decides the outcome.  When download_knob_complete returns
\* for an asset whose thumbnail fetch succeeded and whose payload fetch
\* failed, it returns false, the id is in the failed set and not in the
\* completed set, and downloaded is not true.
C14_PayloadDecides ==
    \A t \in Threads :
        (AtCompleteReturn(t) /\ task[t].tres = "path" /\ task[t].kres = "") =>
            /\ task[t].ret = "false"
            /\ task[t].knob \in failed_ids
            /\ task[t].knob \notin completed_ids
            /\ ~knob[task[t].knob].downloaded

\* A task returns after its thumbnail was fetched from the network and every
\* attempt of its payload fetch failed.
C14_Witness ==
    \E t \in Threads :
        /\ AtCompleteReturn(t)
        /\ task[t].tres = "path"
        /\ thumbFile[task[t].knob] = "bytes"
        /\ task[t].kres = ""
        /\ knob[task[t].knob].download_url
        /\ task[t].fail >= 1
        /\ task[t].fail = retry_attempts

\* C15: lock discipline.  Every step that changes the status or one of the
\* two id sets is taken while the downloader's lock is held.
C15_WritesUnderLock ==
    [][(status' # status \/ completed_ids' # completed_ids
            \/ failed_ids' # failed_ids) => lock # 0]_vars

\* C16: run termination.  Under fair scheduling every run started with
\* batch_size >= 1 and max_workers >= 1 eventually returns, with
\* in_progress = false.
C16_RunTerminates ==
    (run.pc = "r163" /\ ValidConfig) ~>
        (run.pc = "returned" /\ ~status.in_progress)

\* C17: status message.  Throughout a run the status carries a message, and
\* no assignment of the message fails.
C17_StatusMessage ==
    (run.pc # "idle") =>
        /\ "message" \in DOMAIN status
        /\ run.err # "no_field_message"

\* C19: per-run reset.  Once lines 155-164 of a run have run, the status is
\* (in_progress = true, total_items = N, completed_items = 0, success = false)
\* and both id sets are empty, whatever earlier calls left in them; nothing
\* is counted in the run that is not of the run.
C19_PerRunReset ==
    run.pc \in {"r167", "r177"} =>
        /\ status = ScrapeStatus(TRUE, Len(run.knobs), 0, FALSE)
        /\ completed_ids = {}
        /\ failed_ids = {}

\* A run has reset the state after an earlier download_knob_complete call
\* had recorded its asset in one of the id sets.
C19_Witness ==
    /\ run.pc = "r167"
    /\ Len(run.knobs) >= 1
    /\ \E k \in Knobs : knob[k].local_thumbnail_path
    /\ completed_ids = {}
    /\ failed_ids = {}
    /\ status.completed_items = 0

\* C20: the path field is written on success only.  When a fetch function of
\* the downloader returns "" (missing URL or attempts used up), the asset's
\* path field is as it was when the function was entered.
C20_PathOnSuccessOnly ==
    \A t \in Threads :
        /\ (AtThumbReturn(t) /\ task[t].tres = "") =>
                knob[task[t].knob].local_thumbnail_path = task[t].had
        /\ (AtKnobReturn(t) /\ task[t].kres = "") =>
                knob[task[t].knob].local_path = task[t].had

\* C21: errors as values.  No failure of an attempt leaves a fetch function
\* as an exception: the frame never unwinds, and a fetch that went to the
\* network and returned "" has failed retry_attempts times, whatever step of
\* the attempts failed.
C21_ErrorsAsValues ==
    \A t \in Threads :
        /\ task[t].pc # "raised"
        /\ (AtThumbReturn(t) /\ task[t].tres = "" /\ task[t].req >= 1) =>
                task[t].fail = retry_attempts
        /\ (AtKnobReturn(t) /\ task[t].kres = "" /\ task[t].req >= 1) =>
                task[t].fail = retry_attempts

\* download_knob_with_retry returns "" after attempts of which one failed in
\* writing the file (the file it created is there).
C21_Witness ==
    \E t \in Threads :
        /\ AtKnobReturn(t)
        /\ task[t].kres = ""
        /\ task[t].pre = "absent"
        /\ Exists(knobFile[task[t].knob])
        /\ task[t].fail = retry_attempts

\* A frame of download_knob_complete (not of the data service's download).
InComplete(t) ==
    task[t].pc \in {"c120", "t44", "t56", "k79", "k93", "c131", "c132", "c134",
                    "c137", "c138"}

\* C22: disjoint writers.  A step of the task for asset a changes no record
\* but a's: whenever a record changes, the thread that took the step is in a
\* task for that record.  Two tasks running at once are for different
\* records, so they never write the same one.
C22_DisjointWriters ==
    [][\A k \in Knobs :
          knob'[k] # knob[k] =>
              \E t \in Threads : task[t].knob = k /\ task'[t] # task[t]]_vars

\* Two download_knob_complete tasks run at once, for different records, and
\* both have written theirs.
C22_Witness ==
    \E t1, t2 \in Threads :
        /\ t1 # t2
        /\ InComplete(t1)
        /\ InComplete(t2)
        /\ task[t1].knob # task[t2].knob
        /\ knob[task[t1].knob].local_path
        /\ knob[task[t2].knob].local_path

\* C23: no batch-level retry.  When a run is over, every asset of its list
\* has been submitted to download_knob_complete, once (the fetch functions
\* bound the requests of one submission, C5).
C23_SubmittedOnce ==
    (RunOver /\ ValidConfig) =>
        \A k \in Knobs : InList(k) => k \in submitted

\* C28: the run status is released on every exit.  When no call of
\* download_assets_in_batches is executing (it has not been called, it has
\* returned, or it has raised), the status has in_progress = false.
C28_StatusReleased ==
    run.pc \in {"idle", "raised", "returned"} => ~status.in_progress

\* C30: progress counter invariant.  At every moment of a run at which the
\* lock is free, the two id sets are disjoint and hold only ids of the run's
\* assets, completed_items is the size of the completed set, and it does not
\* exceed total_items.
C30_ProgressCounters ==
    (run.pc \notin {"idle", "raised", "returned"} /\ lock = 0) =>
        /\ completed_ids \cap failed_ids = {}
        /\ \A k \in completed_ids \cup failed_ids : InList(k)
        /\ status.completed_items = Cardinality(completed_ids)
        /\ status.completed_items <= status.total_items

\* C24: configuration stays positive.  After any sequence of update_settings
\* calls, MAX_DOWNLOAD_WORKERS, DOWNLOAD_BATCH_SIZE and
\* DOWNLOAD_RETRY_ATTEMPTS are positive integers.
C24_SettingsPositive ==
    \A k \in {"MAX_DOWNLOAD_WORKERS", "DOWNLOAD_BATCH_SIZE",
              "DOWNLOAD_RETRY_ATTEMPTS"} : settings[k] >= 1


\* C25: when the fetch of the knob list from the JSON endpoint has failed
\* (transport error, non-success status, unparsable JSON), the scrape that
\* has returned went through scrape_gallery_html.
C25_HtmlFallback ==
    \A i \in Scrapes :
        scrape[i].pc = "done" /\ scrape[i].fetched \in FetchFailures
            => scrape[i].html

\* C26: when a scrape_all_knobs has returned and none is running,
\* scrape_status.in_progress is false (so no POST /scrape is turned away).
C26_ScrapeReleased ==
    (/\ \E i \in Scrapes : scrape[i].pc = "done"
     /\ \A i \in Scrapes : ~Running(i))
        => ~scrape_status.in_progress

\* C27: at most one scrape_all_knobs is in progress at any moment.
C27_SingleScrape ==
    Cardinality({i \in Scrapes : Running(i)}) <= 1

\* C29: when download_knob returns, it reports success only if this call
\* obtained the knob file (found on disk or downloaded), it reports failure
\* whenever the knob file was not obtained, and for an unknown id it reports
\* not-found having run neither download.
C29_SingleKnobResult ==
    \A t \in Threads :
        task[t].pc = "d486" =>
            /\ task[t].ret = "true" => task[t].kres = "path"
            /\ task[t].kres = "" => task[t].ret = "false"
            /\ task[t].ret = "not_found" =>
                   task[t].kres = "none" /\ task[t].tres = "none" /\ task[t].req = 0

\* The ids of a request that match a known knob, counted with repetition.
Matched(ids) == Cardinality({i \in 1..Len(ids) : Found(ids[i])})

\* C31: when download_multiple_knobs has returned, either no id of the
\* request matched, no download was submitted and the result is (False, "No
\* valid knobs to download"), or completed + failed is the number of ids that
\* matched and the result is success exactly when completed > 0.
C31_BatchAccounting ==
    multi.pc = "returned" =>
        IF Matched(multi.ids) = 0
        THEN /\ multi.ret = "false"
             /\ multi.msg = "no_valid"
             /\ multi.fut = <<>>
             /\ \A t \in Threads : task[t].pc = "idle"
        ELSE /\ multi.completed + multi.failed = Matched(multi.ids)
             /\ multi.msg = "summary"
             /\ multi.ret = "true" <=> multi.completed > 0

\* A request naming an unknown id and the same knob twice has returned, after
\* two workers ran on that knob, with one download counted as completed and
\* one as failed.
C31_Witness ==
    /\ multi.pc = "returned"
    /\ Len(multi.ids) > Matched(multi.ids)
    /\ \E i, j \in 1..Len(multi.ids) :
          i # j /\ multi.ids[i] = multi.ids[j] /\ Found(multi.ids[i])
    /\ multi.completed >= 1
    /\ multi.failed >= 1

\* C32: with a positive batch size and worker count in settings, a call of
\* download_thumbnails_only that is over has returned, with completed + failed
\* equal to the length of the list, status.completed_items = completed,
\* in_progress = false and success = (completed > 0).
C32_ThumbnailRun ==
    (/\ RunOver
     /\ settings["DOWNLOAD_BATCH_SIZE"] >= 1
     /\ settings["MAX_DOWNLOAD_WORKERS"] >= 1) =>
        /\ run.pc = "returned"
        /\ Cardinality(completed_ids) + Cardinality(failed_ids) = Len(run.knobs)
        /\ status.completed_items = Cardinality(completed_ids)
        /\ ~status.in_progress
        /\ status.success = (Cardinality(completed_ids) > 0)

\* Pages 1..q of the catalog, one after another, as get_all_knobs returns
\* them.
RECURSIVE PagesUpTo(_, _, _)
PagesUpTo(knobs, limit, q) ==
    IF q = 0 THEN <<>>
    ELSE PagesUpTo(knobs, limit, q - 1) \o KnobsSubset(knobs, q, limit)

\* C33: after get_all_knobs(page, limit) on a list of n knobs with
\* limit >= 1, total = n and total_pages = ceil(n / limit) (1 when n = 0); a
\* page within 1..total_pages holds exactly the knobs at the 0-based indices
\* (page-1)*limit .. min(page*limit, n)-1 in order, a page beyond holds none,
\* and the pages 1..total_pages one after another are the whole list.
C33_Pagination ==
    listing.page >= 1 =>
        LET knobs == listing.knobs
            n == Len(knobs)
            limit == listing.limit
            first == (listing.page - 1) * limit
            last == Min(listing.page * limit, n)
        IN
        /\ listing.total = n
        /\ listing.total_pages = IF n = 0 THEN 1 ELSE Ceil(n, limit)
        /\ listing.page <= listing.total_pages =>
               listing.resp_knobs = [i \in 1..(last - first) |-> knobs[first + i]]
        /\ listing.page > listing.total_pages => listing.resp_knobs = <<>>
        /\ PagesUpTo(knobs, limit, listing.total_pages) = knobs

\* The last of several pages was asked for, and it is not full.
C33_Witness ==
    /\ listing.page >= 2
    /\ listing.page = listing.total_pages
    /\ listing.resp_knobs # <<>>
    /\ Len(listing.resp_knobs) < listing.limit
=============================================================================
